---- MODULE Spec2Model ----
(***************************************************************************)
(* A model of src/main.py: the Svix webhook handler that upserts rows of   *)
(* the users table, the user lookup endpoint, and the two endpoints that   *)
(* serve games/<dir>/data.json files.                                      *)
(*                                                                         *)
(* Three specifications share the variables:                               *)
(*   Spec       one server process; a handler body runs without yielding   *)
(*              between its database calls (main.py has no await after     *)
(*              line 56 in handle_webhook and none in get_user_data).      *)
(*   SpecConc   two server processes on the same database: the lookup      *)
(*              (line 71) and the commit (line 80) of two webhook          *)
(*              requests interleave.                                       *)
(*   SpecGames  the games endpoints, with another actor writing and        *)
(*              removing files of the games directory.                     *)
(***************************************************************************)
EXTENDS Integers, Sequences, FiniteSets, TLC

\* ------------------------------------------------------------------ bounds
NumIds == 2
NumEmails == 2
NumDirs == 2
NumVals == 2

\* Python's None, as a column value, as the result of dict.get on a missing key
None == 0

Ids == 1..NumIds
Emails == 1..NumEmails
\* two values are enough to see a field overwritten or mixed
Usernames == {None, 1}
PictureUrls == {None, 1}

\* ---------------------------------------------------------- webhook input
\* json_payload.get("type"): the two user events, another event, no type
NoType == "<absent>"
UserEvents == {"user.created", "user.updated"}
EventTypes == UserEvents \cup {"session.created", NoType}

\* what a JSON member holds: no such key, a value that is no object (null,
\* a string, a list), or an object
JsonKinds == {"absent", "nonobject", "object"}

\* the first entries of data.object.email_addresses: no such key is
\* has_email_addresses = FALSE, [] is <<>>, [{"email_address": e}, ...] is <<e>>
EmailLists == {<<>>} \cup {<<e>> : e \in Emails}

\* data.object = {}: every get returns None
EmptyUserData ==
    [id |-> None, has_email_addresses |-> FALSE, email_addresses |-> <<>>,
     username |-> None, profile_image_url |-> None]

UserDataSet ==
    {u \in [id : {None} \cup Ids, has_email_addresses : BOOLEAN,
            email_addresses : EmailLists, username : Usernames,
            profile_image_url : PictureUrls] :
        ~u.has_email_addresses => u.email_addresses = <<>>}

\* the verified JSON body, as far as the handler reads it
Payloads ==
    {p \in [type : EventTypes, data_kind : JsonKinds, object_kind : JsonKinds,
            user_data : UserDataSet] :
        /\ p.data_kind # "object" => p.object_kind = "absent"
        /\ p.object_kind # "object" => p.user_data = EmptyUserData}

NoPayload ==
    [type |-> NoType, data_kind |-> "absent", object_kind |-> "absent",
     user_data |-> EmptyUserData]

\* an HTTP request: POST /webhook (sig_ok: the three svix headers and the raw
\* body verify against SVIX_SECRET) or GET /user/{user_id}/data
WebhookRequests ==
    {[op |-> "webhook", sig_ok |-> s, payload |-> p, user_id |-> None] :
        s \in BOOLEAN, p \in Payloads}
GetUserRequests ==
    {[op |-> "get_user", sig_ok |-> FALSE, payload |-> NoPayload, user_id |-> i] :
        i \in Ids}
NoRequest == [op |-> "none", sig_ok |-> FALSE, payload |-> NoPayload, user_id |-> None]

\* ------------------------------------------------------------- responses
NoBody == [id |-> None, email |-> None, username |-> None, profile_picture_url |-> None]
\* {"status": "success"}
Success == [status |-> 200, detail |-> "success", body |-> NoBody]
\* raise HTTPException(status_code, detail)
HTTPException(status_code, detail) ==
    [status |-> status_code, detail |-> detail, body |-> NoBody]
\* an exception no handler catches: the framework answers 500
ServerError == [status |-> 500, detail |-> "Internal Server Error", body |-> NoBody]
NoResponse == [status |-> 0, detail |-> "", body |-> NoBody]

VARIABLES
    users,      \* the rows of table users (committed state of the database)
    pc,         \* Spec: "idle", "done"
    request,    \* Spec: the request in progress
    response,   \* Spec: the response of the request in progress
    before,     \* Spec: table users when the handler started
    committed,  \* Spec: the ids a webhook event was committed for
    wpc,        \* SpecConc: per process "idle", "query", "commit", "done"
    wfields,    \* SpecConc: per process the extracted id, email, username, picture
    wpending,   \* SpecConc: per process the session's pending write
    wresponse,  \* SpecConc: per process the response
    commitSeq,  \* SpecConc: the processes at "done", in the order of their commits
    games,      \* SpecGames: games/<dir>/data.json per directory
    gpc,        \* SpecGames: "idle", "open", "done"
    grequest,   \* SpecGames: the request in progress
    gresponse,  \* SpecGames: its response
    traversal   \* SpecGames: the order rglob yielded the files in

userVars == <<users, pc, request, response, before, committed>>
concVars == <<wpc, wfields, wpending, wresponse, commitSeq>>
gameVars == <<games, gpc, grequest, gresponse, traversal>>
vars == <<userVars, concVars, gameVars>>

\* ------------------------------------------------------- the users table
\* class User: one row of table users
User(id, email, username, profile_picture_url) ==
    [id |-> id, email |-> email, username |-> username,
     profile_picture_url |-> profile_picture_url]

\* the columns handle_webhook assigns on an existing row
Attributes == {"email", "username", "profile_picture_url"}

\* id = Column(String, primary_key=True): NOT NULL and one row per id
PrimaryKeyViolation(tbl, row) ==
    row.id = None \/ \E r \in tbl : r.id = row.id

\* variant: the email column without unique=True
UniqueViolationOff(tbl, row) == FALSE

\* email = Column(String, unique=True): no other row holds the email
UniqueViolation(tbl, row) ==
    row.email # None /\ \E r \in tbl : r.email = row.email

\* db.query(User).filter(User.id == user_id): the matching rows; first() is
\* one of them, or None when there is none
QueryById(tbl, user_id) == {row \in tbl : row.id = user_id}

\* the session's pending write when the handler has touched nothing
NoPending == [kind |-> "none", row |-> NoBody, modified |-> {}]

\* variant: the new row built without profile_picture_url
NewUserNoPicture(f) ==
    [kind |-> "insert", row |-> User(f.id, f.email, f.username, None),
     modified |-> {}]

\* new_user = User(...); db.add(new_user)
NewUser(f) ==
    [kind |-> "insert",
     row |-> User(f.id, f.email, f.username, f.profile_picture_url),
     modified |-> {}]

\* db_user.email = ...; db_user.username = ...; db_user.profile_picture_url = ...
\* the unit of work records the attributes whose value changed, and its UPDATE
\* sets only those
AssignFields(db_user, f) ==
    LET row == User(db_user.id, f.email, f.username, f.profile_picture_url)
    IN [kind |-> "update", row |-> row,
        modified |-> {a \in Attributes : row[a] # db_user[a]}]

\* variant: the lookup filters on User.email instead of User.id
UpsertByEmail(tbl, f) ==
    LET found == {row \in tbl : row.email = f.email}
    IN IF found # {}
       THEN AssignFields(CHOOSE r \in found : TRUE, f)
       ELSE NewUser(f)

\* the lookup by id, then the update of the row found or the add of a new one
Upsert(tbl, f) ==
    LET found == QueryById(tbl, f.id)
    IN IF found # {}
       THEN AssignFields(CHOOSE r \in found : TRUE, f)
       ELSE NewUser(f)

\* the rows an UPDATE users SET <modified> WHERE id = <pk> leaves
UpdatedRows(tbl, pending) ==
    {[a \in DOMAIN r |-> IF a \in pending.modified THEN pending.row[a] ELSE r[a]] :
        r \in {t \in tbl : t.id = pending.row.id}}

\* db.commit(): the flush sends the INSERT or the UPDATE, the database checks
\* its constraints, and the transaction commits; a violated constraint raises
\* IntegrityError and the transaction leaves nothing behind
Commit(tbl, pending) ==
    IF pending.kind = "insert"
    THEN IF PrimaryKeyViolation(tbl, pending.row) \/ UniqueViolation(tbl, pending.row)
         THEN [ok |-> FALSE, users |-> tbl]
         ELSE [ok |-> TRUE, users |-> tbl \cup {pending.row}]
    ELSE IF pending.kind = "update" /\ pending.modified # {}
    THEN LET rest == {t \in tbl : t.id # pending.row.id}
             new == UpdatedRows(tbl, pending)
         IN IF "email" \in pending.modified /\ \E n \in new : UniqueViolation(rest, n)
            THEN [ok |-> FALSE, users |-> tbl]
            ELSE [ok |-> TRUE, users |-> rest \cup new]
    ELSE [ok |-> TRUE, users |-> tbl]

\* ------------------------------------------------------- handle_webhook
\* variant: the signature is not checked
verifyAnything(r) == TRUE

\* wh.verify(payload, headers): WebhookVerificationError unless the signature
\* over the raw body and the svix headers is right
verify(r) == r.sig_ok

\* json_payload.get("data", {}).get("object", {}): AttributeError when data
\* holds something that has no get
UserDataRaises(json_payload) == json_payload.data_kind = "nonobject"

\* variant: a missing or empty email_addresses reads as None instead of raising
email_address_or_none(user_data) ==
    IF user_data.has_email_addresses /\ user_data.email_addresses # <<>>
    THEN [raised |-> FALSE, value |-> user_data.email_addresses[1]]
    ELSE [raised |-> FALSE, value |-> None]

\* user_data.get("email_addresses")[0]["email_address"]: TypeError on None,
\* IndexError on []
email_address(user_data) ==
    IF user_data.has_email_addresses /\ user_data.email_addresses # <<>>
    THEN [raised |-> FALSE, value |-> user_data.email_addresses[1]]
    ELSE [raised |-> TRUE, value |-> None]

\* user_id, email, username, profile_picture_url as the handler reads them;
\* raised when one of the reads throws (data.object without get, too)
Extract(json_payload) ==
    LET user_data == json_payload.user_data
        email == email_address(user_data)
    IN [raised |-> json_payload.object_kind = "nonobject" \/ email.raised,
        id |-> user_data.id,
        email |-> email.value,
        username |-> user_data.username,
        profile_picture_url |-> user_data.profile_image_url]

NoFields ==
    [raised |-> FALSE, id |-> None, email |-> None, username |-> None,
     profile_picture_url |-> None]

\* the whole handler on table tbl: its response and the table it leaves
handle_webhook(tbl, r) ==
    IF ~verify(r)
    THEN [response |-> HTTPException(400, "Invalid webhook signature"), users |-> tbl]
    ELSE LET json_payload == r.payload
         IN IF UserDataRaises(json_payload)
            THEN [response |-> ServerError, users |-> tbl]
            ELSE IF json_payload.type \in UserEvents
            THEN LET f == Extract(json_payload)
                 IN IF f.raised
                    THEN [response |-> ServerError, users |-> tbl]
                    ELSE LET c == Commit(tbl, Upsert(tbl, f))
                         IN IF c.ok
                            THEN [response |-> Success, users |-> c.users]
                            ELSE [response |-> ServerError, users |-> tbl]
            ELSE [response |-> Success, users |-> tbl]

\* variant: the lookup filters on User.email instead of User.id
get_user_data_by_email(tbl, user_id) ==
    LET found == {row \in tbl : row.email = user_id}
    IN IF found # {}
       THEN [status |-> 200, detail |-> "", body |-> CHOOSE r \in found : TRUE]
       ELSE HTTPException(404, "User not found")

\* GET /user/{user_id}/data
get_user_data(tbl, user_id) ==
    LET found == QueryById(tbl, user_id)
    IN IF found # {}
       THEN [status |-> 200, detail |-> "", body |-> CHOOSE r \in found : TRUE]
       ELSE HTTPException(404, "User not found")

\* ------------------------------------------------ Spec: one server process
IdleConc ==
    /\ wpc = [w \in {1, 2} |-> "idle"]
    /\ wfields = [w \in {1, 2} |-> NoFields]
    /\ wpending = [w \in {1, 2} |-> NoPending]
    /\ wresponse = [w \in {1, 2} |-> NoResponse]
    /\ commitSeq = <<>>

IdleUsers ==
    /\ pc = "idle"
    /\ request = NoRequest
    /\ response = NoResponse
    /\ before = {}
    /\ committed = {}

NoGameFile == [kind |-> "absent", obj |-> <<>>]

IdleGames ==
    /\ gpc = "idle"
    /\ grequest = [op |-> "none", dir_name |-> 0]
    /\ gresponse = [status |-> 0, body |-> <<>>]
    /\ traversal = <<>>

\* Base.metadata.create_all on a new database: table users is empty
Init ==
    /\ users = {}
    /\ IdleUsers
    /\ IdleConc
    /\ games = [d \in 1..NumDirs |-> NoGameFile]
    /\ IdleGames

\* POST /webhook with request r: handle_webhook, lines 48-82, and the
\* session's close
HandleWebhook(r) ==
    /\ pc = "idle"
    /\ LET out == handle_webhook(users, r)
       IN /\ users' = out.users
          /\ response' = out.response
          /\ committed' =
                IF verify(r) /\ r.payload.type \in UserEvents
                   /\ out.response = Success
                THEN committed \cup {r.payload.user_data.id}
                ELSE committed
    /\ request' = r
    /\ before' = users
    /\ pc' = "done"
    /\ UNCHANGED <<concVars, gameVars>>

\* GET /user/{user_id}/data with request r: get_user_data, lines 111-122
GetUserData(r) ==
    /\ pc = "idle"
    /\ response' = get_user_data(users, r.user_id)
    /\ request' = r
    /\ before' = users
    /\ pc' = "done"
    /\ UNCHANGED <<users, committed>>
    /\ UNCHANGED <<concVars, gameVars>>

\* the response is sent and the request is over
Return ==
    /\ pc = "done"
    /\ pc' = "idle"
    /\ request' = NoRequest
    /\ response' = NoResponse
    /\ before' = {}
    /\ UNCHANGED <<users, committed>>
    /\ UNCHANGED <<concVars, gameVars>>

Next ==
    \/ \E r \in WebhookRequests : HandleWebhook(r)
    \/ \E r \in GetUserRequests : GetUserData(r)
    \/ Return

Spec == Init /\ [][Next]_vars

\* ------------------------------------------------- claims checked under Spec
\* the request just handled is a POST /webhook
WebhookDone == pc = "done" /\ request.op = "webhook"

\* ... with a valid signature and type user.created or user.updated
UserEventDone ==
    WebhookDone /\ request.sig_ok /\ request.payload.type \in UserEvents

\* what the event submits
Submitted == request.payload.user_data

\* the payload carries data.object with an id and a first email address
Complete(p) ==
    /\ p.data_kind = "object"
    /\ p.object_kind = "object"
    /\ p.user_data.id # None
    /\ p.user_data.has_email_addresses
    /\ p.user_data.email_addresses # <<>>

\* the payload has no id, no email_addresses key or an empty email_addresses
Lacking(p) ==
    \/ p.user_data.id = None
    \/ ~p.user_data.has_email_addresses
    \/ p.user_data.email_addresses = <<>>

\* the row the event submits
SubmittedRow ==
    User(Submitted.id, Submitted.email_addresses[1], Submitted.username,
         Submitted.profile_image_url)

\* a row of another id held the submitted email when the handler started
EmailTaken ==
    \E r \in before : r.email = Submitted.email_addresses[1] /\ r.id # Submitted.id

\* a lookup of the submitted id now returns the submitted fields
LookupReturnsSubmitted ==
    LET got == get_user_data(users, Submitted.id)
    IN got.status = 200 /\ got.body = SubmittedRow

\* C1: when the signature of a POST /webhook does not verify, the response is
\* 400 and table users is as it was before the request, whatever the body holds.
C1_InvalidSignatureRejected ==
    (WebhookDone /\ ~request.sig_ok) => (response.status = 400 /\ users = before)

\* a rejected request whose body, had it been accepted, would have changed a row
C1_Witness ==
    /\ WebhookDone /\ ~request.sig_ok
    /\ request.payload.type \in UserEvents /\ Complete(request.payload)
    /\ \E r \in before : r.id = Submitted.id /\ r # SubmittedRow
    /\ ~EmailTaken
    /\ response.status = 400

\* C2 as stated: every valid signed user.created event (carrying the fields it
\* submits) returns success in any state of the table, and a lookup of its id
\* then returns the submitted email, username and picture URL.
C2_Original ==
    (UserEventDone /\ request.payload.type = "user.created"
        /\ Complete(request.payload))
    => (response = Success /\ LookupReturnsSubmitted)

\* C2 amended: the same, for the events whose email no row of another id holds.
C2_CreatedThenLookup ==
    (UserEventDone /\ request.payload.type = "user.created"
        /\ Complete(request.payload) /\ ~EmailTaken)
    => (response = Success /\ LookupReturnsSubmitted)

\* a user.created event accepted on a table that holds other rows
C2_Witness ==
    /\ UserEventDone /\ request.payload.type = "user.created"
    /\ Complete(request.payload) /\ ~EmailTaken
    /\ \E r \in before : r.id # Submitted.id
    /\ Submitted.username # None /\ Submitted.profile_image_url # None
    /\ response = Success

\* at most one row per id
OneRowPerId == \A r1, r2 \in users : r1.id = r2.id => r1 = r2

\* the event just handled names an id that had a row
ExistingIdEvent ==
    /\ UserEventDone /\ Complete(request.payload)
    /\ \E r \in before : r.id = Submitted.id

\* the row of the submitted id now holds the submitted fields, and the table has
\* as many rows as before
OverwrittenInPlace ==
    /\ SubmittedRow \in users
    /\ Cardinality(users) = Cardinality(before)

\* C3 as stated: at most one row per id, and an event for an id that has a row
\* overwrites the row's fields in place and leaves the number of rows unchanged.
C3_Original ==
    OneRowPerId /\ (ExistingIdEvent => OverwrittenInPlace)

\* C3 amended: at most one row per id; an event for an id that has a row
\* overwrites the row in place unless a row of another id holds its email, and
\* then the table is left as it was; the number of rows is unchanged either way.
C3_OneRowPerId ==
    /\ OneRowPerId
    /\ (ExistingIdEvent /\ ~EmailTaken) => OverwrittenInPlace
    /\ (ExistingIdEvent /\ EmailTaken) => users = before

\* an event that changed every field of an existing row
C3_Witness ==
    /\ ExistingIdEvent /\ ~EmailTaken
    /\ \E r \in before :
        /\ r.id = Submitted.id
        /\ r.email # SubmittedRow.email
        /\ r.username # SubmittedRow.username
        /\ r.profile_picture_url # SubmittedRow.profile_picture_url
    /\ response = Success

C6_OtherTypeIsNoOp ==
    (WebhookDone /\ request.sig_ok /\ request.payload.type \notin UserEvents)
    => (response = Success /\ users = before)

\* C9: GET /user/{user_id}/data answers 404 for an id no event was committed
\* for and the stored row otherwise, and leaves the table unchanged; the row of
\* an id once committed is never removed.
C9_LookupByCommitted ==
    /\ (pc = "done" /\ request.op = "get_user") =>
        /\ users = before
        /\ request.user_id \notin committed => response.status = 404
        /\ request.user_id \in committed =>
            /\ response.status = 200
            /\ response.body \in users
            /\ response.body.id = request.user_id
    /\ \A i \in committed : get_user_data(users, i).status = 200

\* a lookup that succeeded while another id was still unknown
C9_Witness ==
    /\ pc = "done" /\ request.op = "get_user"
    /\ response.status = 200
    /\ committed # {} /\ committed # Ids

\* C10: no two rows share an email; an event whose email a row of another id
\* holds fails with a server error and leaves every row as it was.
C10_UniqueEmail ==
    /\ \A r1, r2 \in users : r1.email = r2.email => r1 = r2
    /\ (UserEventDone /\ Complete(request.payload) /\ EmailTaken)
        => (response.status = 500 /\ users = before)

\* such an event for an id that has a row of its own
C10_Witness ==
    /\ UserEventDone /\ Complete(request.payload) /\ EmailTaken
    /\ \E r \in before : r.id = Submitted.id
    /\ response.status = 500

\* ------------------------------------- SpecConc: two server processes
\* the processes; each handles one request at a time
Workers == {1, 2}

\* the webhook requests that reach the lookup of line 71: verified, a user
\* event, and lines 62-69 raise nothing
UpsertRequests ==
    {r \in WebhookRequests :
        /\ verify(r)
        /\ ~UserDataRaises(r.payload)
        /\ r.payload.type \in UserEvents
        /\ ~Extract(r.payload).raised}

\* lines 48-69 in process w: the request is verified and its fields are read
Begin(w, r) ==
    /\ wpc[w] = "idle"
    /\ wpc' = [wpc EXCEPT ![w] = "query"]
    /\ wfields' = [wfields EXCEPT ![w] = Extract(r.payload)]
    /\ UNCHANGED <<users, wpending, wresponse, commitSeq>>
    /\ UNCHANGED <<pc, request, response, before, committed, gameVars>>

\* lines 71-78 in process w: the lookup reads the committed table, and the
\* session holds the update or the insert until the commit
Lookup(w) ==
    /\ wpc[w] = "query"
    /\ wpc' = [wpc EXCEPT ![w] = "commit"]
    /\ wpending' = [wpending EXCEPT ![w] = Upsert(users, wfields[w])]
    /\ UNCHANGED <<users, wfields, wresponse, commitSeq>>
    /\ UNCHANGED <<pc, request, response, before, committed, gameVars>>

\* line 80 in process w: db.commit() against the table as it is now, then the
\* response of line 82, or 500 when the commit raised
CommitStep(w) ==
    /\ wpc[w] = "commit"
    /\ LET c == Commit(users, wpending[w])
       IN /\ users' = c.users
          /\ wresponse' = [wresponse EXCEPT ![w] = IF c.ok THEN Success ELSE ServerError]
    /\ wpc' = [wpc EXCEPT ![w] = "done"]
    /\ wpending' = [wpending EXCEPT ![w] = NoPending]
    /\ commitSeq' = Append(commitSeq, w)
    /\ UNCHANGED wfields
    /\ UNCHANGED <<pc, request, response, before, committed, gameVars>>

\* the response of process w is sent and its session closed
ConcReturn(w) ==
    /\ wpc[w] = "done"
    /\ wpc' = [wpc EXCEPT ![w] = "idle"]
    /\ wfields' = [wfields EXCEPT ![w] = NoFields]
    /\ wresponse' = [wresponse EXCEPT ![w] = NoResponse]
    /\ commitSeq' = SelectSeq(commitSeq, LAMBDA v : v # w)
    /\ UNCHANGED <<users, wpending>>
    /\ UNCHANGED <<pc, request, response, before, committed, gameVars>>

NextConc ==
    \E w \in Workers :
        \/ \E r \in UpsertRequests : Begin(w, r)
        \/ Lookup(w)
        \/ CommitStep(w)
        \/ ConcReturn(w)

SpecConc == Init /\ [][NextConc]_vars

\* both processes have answered requests that carry the same id, and no row of
\* another id holds the email of either
SameIdBothDone ==
    /\ wpc[1] = "done" /\ wpc[2] = "done"
    /\ wfields[1].id = wfields[2].id
    /\ wfields[1].id # None
    /\ \A r \in users :
        r.id # wfields[1].id => r.email \notin {wfields[1].email, wfields[2].email}

\* C4 as stated: two requests for the same id, their lookups and commits
\* interleaved in any way, both succeed, and the table ends with one row for
\* the id, which carries all fields of the request that committed last.
C4_ConcurrentUpsertsSerialized ==
    SameIdBothDone =>
        /\ wresponse[1] = Success /\ wresponse[2] = Success
        /\ LET last == wfields[commitSeq[Len(commitSeq)]]
           IN QueryById(users, wfields[1].id) =
                {User(last.id, last.email, last.username, last.profile_picture_url)}

\* --------------------------------------------- SpecGames: the games files
\* the subdirectories of ./games
Dirs == 1..NumDirs
\* the values the files give their keys
Vals == 1..NumVals
\* the keys a data.json may define; "__comment__" is the key of the marker
Keys == {"__comment__", "title"}
\* the marker's value, "Combined data"
CombinedData == 0

\* the JSON objects a data.json may hold
JsonObjects == UNION {[K -> Vals] : K \in SUBSET Keys}

\* games/<dir>/data.json: absent, text json.loads rejects, or a JSON object
GameFiles ==
    {NoGameFile, [kind |-> "malformed", obj |-> <<>>]}
        \cup {[kind |-> "object", obj |-> o] : o \in JsonObjects}

\* base_dir.rglob("data.json"): the directories that hold the file; the order
\* they come in is the file system's
rglob(fs) == {d \in Dirs : fs[d].kind # "absent"}
Traversals(S) ==
    {o \in [1..Cardinality(S) -> S] : \A i, j \in 1..Cardinality(S) : i # j => o[i] # o[j]}

\* variant: keys already present keep their value (first write wins)
DictSetDefault(d, other) ==
    [k \in DOMAIN d \cup DOMAIN other |-> IF k \in DOMAIN d THEN d[k] ELSE other[k]]

\* d.update(other)
DictUpdate(d, other) ==
    [k \in DOMAIN d \cup DOMAIN other |-> IF k \in DOMAIN other THEN other[k] ELSE d[k]]

\* the loop of lines 90-94 over the files in order; json.loads raises on a
\* malformed file and the framework answers 500
RECURSIVE MergeFiles(_, _, _)
MergeFiles(combined_data, order, fs) ==
    IF order = <<>>
    THEN [status |-> 200, body |-> combined_data]
    ELSE IF fs[Head(order)].kind # "object"
    THEN [status |-> 500, body |-> <<>>]
    ELSE MergeFiles(DictUpdate(combined_data, fs[Head(order)].obj), Tail(order), fs)

\* GET /games/
get_combined_json(fs, order) ==
    MergeFiles([k \in {"__comment__"} |-> CombinedData], order, fs)

\* GET /games/ on the files as they are, in one of the orders rglob may yield
GetCombinedJson ==
    /\ gpc = "idle"
    /\ \E order \in Traversals(rglob(games)) :
        /\ traversal' = order
        /\ gresponse' = get_combined_json(games, order)
    /\ grequest' = [op |-> "list", dir_name |-> 0]
    /\ gpc' = "done"
    /\ UNCHANGED games
    /\ UNCHANGED <<userVars, concVars>>

\* GET /games/{dir_name}, lines 101-102 and 106-107: json_path.exists(), and
\* the 404 when it is false
ExistsCheck(dir_name) ==
    /\ gpc = "idle"
    /\ grequest' = [op |-> "get", dir_name |-> dir_name]
    /\ IF games[dir_name].kind # "absent"
       THEN gpc' = "open" /\ UNCHANGED gresponse
       ELSE /\ gpc' = "done"
            /\ gresponse' = [status |-> 404, body |-> <<>>]
    /\ UNCHANGED <<games, traversal>>
    /\ UNCHANGED <<userVars, concVars>>

\* lines 103-105: aiofiles.open raises FileNotFoundError when the file is gone,
\* json.loads raises on malformed text; neither is caught
ReadFile ==
    /\ gpc = "open"
    /\ LET f == games[grequest.dir_name]
       IN gresponse' =
            IF f.kind = "object"
            THEN [status |-> 200, body |-> f.obj]
            ELSE [status |-> 500, body |-> <<>>]
    /\ gpc' = "done"
    /\ UNCHANGED <<games, grequest, traversal>>
    /\ UNCHANGED <<userVars, concVars>>

\* the response is sent
GamesReturn ==
    /\ gpc = "done"
    /\ gpc' = "idle"
    /\ grequest' = [op |-> "none", dir_name |-> 0]
    /\ gresponse' = [status |-> 0, body |-> <<>>]
    /\ traversal' = <<>>
    /\ UNCHANGED games
    /\ UNCHANGED <<userVars, concVars>>

\* another actor (a deployment, an editor) writes or replaces a file, between
\* requests or between the existence check and the read
WriteFile(d, f) ==
    /\ gpc \in {"idle", "open"}
    /\ f.kind # "absent"
    /\ games[d] # f
    /\ games' = [games EXCEPT ![d] = f]
    /\ UNCHANGED <<gpc, grequest, gresponse, traversal>>
    /\ UNCHANGED <<userVars, concVars>>

\* another actor removes a file
RemoveFile(d) ==
    /\ gpc \in {"idle", "open"}
    /\ games[d].kind # "absent"
    /\ games' = [games EXCEPT ![d] = NoGameFile]
    /\ UNCHANGED <<gpc, grequest, gresponse, traversal>>
    /\ UNCHANGED <<userVars, concVars>>

NextGames ==
    \/ GetCombinedJson
    \/ \E d \in Dirs : ExistsCheck(d)
    \/ ReadFile
    \/ GamesReturn
    \/ \E d \in Dirs, f \in GameFiles : WriteFile(d, f)
    \/ \E d \in Dirs : RemoveFile(d)

SpecGames == Init /\ [][NextGames]_vars

\* the response to a GET /games/ is out
ListDone == gpc = "done" /\ grequest.op = "list"

\* the places of the traversal whose file defines key k
Defining(k) ==
    {i \in 1..Len(traversal) : k \in DOMAIN games[traversal[i]].obj}

\* the last of them
LastDefining(k) == CHOOSE i \in Defining(k) : \A j \in Defining(k) : j <= i

\* C7: GET /games/ returns an object that holds the __comment__ key and, for
\* every key some data.json defines, the value of the file merged last.
C7_LastWriteWins ==
    (ListDone /\ \A d \in Dirs : games[d].kind # "malformed") =>
        /\ gresponse.status = 200
        /\ "__comment__" \in DOMAIN gresponse.body
        /\ \A k \in Keys : Defining(k) # {} =>
            /\ k \in DOMAIN gresponse.body
            /\ gresponse.body[k] = games[traversal[LastDefining(k)]].obj[k]

\* two files that give "title" different values, merged
C7_Witness ==
    /\ ListDone
    /\ gresponse.status = 200
    /\ Len(traversal) >= 2
    /\ "title" \in DOMAIN games[traversal[1]].obj
    /\ "title" \in DOMAIN games[traversal[2]].obj
    /\ games[traversal[1]].obj["title"] # games[traversal[2]].obj["title"]

\* C8 as stated: GET /games/{dir_name} answers 404 exactly when the file does
\* not exist and the file's parsed JSON otherwise, also when the file was
\* removed or replaced between the existence check and the read.
C8_NotFoundOrContents ==
    (gpc = "done" /\ grequest.op = "get") =>
        LET f == games[grequest.dir_name]
        IN /\ f.kind = "absent" => gresponse.status = 404
           /\ f.kind = "object" => (gresponse.status = 200 /\ gresponse.body = f.obj)

====
